---- MODULE Spec2Model ----
(***************************************************************************)
(* Model of storage/cluster/database.go: the clustered database facade      *)
(* (clusterDB), its constructor NewDatabase, Open/Close, the topology       *)
(* watch loop with its start/stop handshake, the periodic shard-state       *)
(* analyzer and the shard-set resolver hostOrEmptyShardSet.                 *)
(*                                                                         *)
(* Goroutines are processes with a program counter; one action is one       *)
(* step of one goroutine between two points where another goroutine can     *)
(* observe or change shared state (a channel operation, a mutex operation,  *)
(* a call into the wrapped engine or into the topology store).              *)
(***************************************************************************)
EXTENDS Integers, Sequences, FiniteSets, TLC

\* ------------------------------------------------------------------ bounds
\* Number of topology snapshots the subscription delivers in one behaviour.
MaxTopoChanges == 2
\* Number of Open/Close/start/stop calls made on the database in one behaviour.
MaxOps == 3
\* The same under the specifications that explore the data with a single caller.
MaxDataOps == 2
\* Number of ticks of one analyzer's ticker that are followed in one behaviour.
MaxPasses == 1
\* Number of topology snapshots under the specification that follows repeated
\* Open calls of a single caller.
MaxReopenTopoChanges == 3

\* ------------------------------------------------------------- data domains
HostIDs == {"H1", "H2"}
ShardIDs == {1, 2}
HashFns == {"murmur32", "fnv"}
NsNames == {"ns1", "ns2"}
Callers == {"c1", "c2"}
Initializing == "Initializing"
Available == "Available"
ShardStates == {Initializing, Available}

\* A sharding.ShardSet: the shards (ID -> lifecycle state) and the hash function.
ShardSetsOf(ids, fn) ==
    { [shards |-> f, hashFn |-> fn] : f \in UNION { [S -> ShardStates] : S \in SUBSET ids } }

\* The content of a topology.Map: the per-host shard sets and the map's own
\* shard set's hash function.  Host shard sets are built with the map's function.
MapContents(hosts, ids, fns) ==
    UNION { { [hosts |-> h, hashFn |-> fn] :
                h \in UNION { [S -> ShardSetsOf(ids, fn)] : S \in SUBSET hosts } } :
            fn \in fns }

\* watch.Get() before the subscription has delivered anything.
NoMap == [ver |-> 0, hosts |-> <<>>, hashFn |-> "none"]
NoShardSet == [shards |-> <<>>, hashFn |-> "none"]

\* What the wrapped engine's Namespaces() can return: for each namespace, for
\* each shard it lists, whether IsBootstrapped().  The engine bootstraps and
\* re-shards on its own, so each call may see any such view of the namespaces
\* the engine was built with.
NsShardViews(ids) == UNION { [S -> BOOLEAN] : S \in SUBSET ids }
NamespaceViews(names, ids) == [names -> NsShardViews(ids)]

\* ---------------------------------------------------------------- resolver
\* sharding.NewEmptyShardSet(fn)
NewEmptyShardSet(fn) == [shards |-> <<>>, hashFn |-> fn]

\* m.LookupHostShardSet(h): the "ok" result
LookupHostShardSet(m, h) == h \in DOMAIN m.hosts

\* Variant: the empty shard set gets the default hash function, not the map's.
hostOrDefaultEmptyShardSet(m, h) ==
    IF LookupHostShardSet(m, h) THEN m.hosts[h] ELSE NewEmptyShardSet("murmur32")

\* clusterDB.hostOrEmptyShardSet, as a function of the map and d.hostID
hostOrEmptyShardSet(m, h) ==
    IF LookupHostShardSet(m, h) THEN m.hosts[h] ELSE NewEmptyShardSet(m.hashFn)

\* The diagnostic hostOrEmptyShardSet writes (d.log.Warnf on the absent branch)
hostOrEmptyShardSetLog(m, h) ==
    IF LookupHostShardSet(m, h) THEN "none" ELSE "Warnf"


\* ------------------------------------------------------------------- state
VARIABLES
    hostID,          \* the hostID argument of NewDatabase (d.hostID)
    dynamic,         \* whether the topology implements topology.DynamicTopology
    topoMap,         \* the latest snapshot of the subscription: watch.Get()
    watchC,          \* a notification is pending on watch.C()
    ctor,            \* the NewDatabase call: [pc, ret]
    db,              \* the wrapped storage.Database (d.Database)
    watchMutex,      \* d.watchMutex: "free" or the caller holding it
    watching,        \* d.watching
    doneCh,          \* d.doneCh: the channel it refers to (0 is nil)
    closedCh,        \* d.closedCh: the channel it refers to (0 is nil)
    doneClosed,      \* the done channels that have been closed
    closedClosed,    \* the closed channels that have been closed
    callers,         \* the goroutines calling Open/Close/start/stop
    loops,           \* the activeTopologyWatch goroutines, by start number
    analyzers,       \* the nested reporting goroutines, by start number
    initializing,    \* d.initializing
    bootstrapCount,  \* d.bootstrapCount
    ops,             \* number of calls begun so far
    event            \* what the last step did that its collaborators see

vars == << hostID, dynamic, topoMap, watchC, ctor, db, watchMutex, watching,
           doneCh, closedCh, doneClosed, closedClosed, callers, loops,
           analyzers, initializing, bootstrapCount, ops, event >>

Gens == 1..MaxOps

\* An event: who acted, the call made on a collaborator and how it went, the
\* diagnostic logged, and the operation that ended with the value it returned.
NoEvent == [by |-> "none", call |-> "none", res |-> "none", log |-> "none",
            op |-> "none", ret |-> "none"]
Ev(by, call, log) == [NoEvent EXCEPT !.by = by, !.call = call, !.log = log]
Res(e, ok) == [e EXCEPT !.res = IF ok THEN "ok" ELSE "err"]
Ret(e, op, ret) == [e EXCEPT !.op = op, !.ret = ret]

\* A calling goroutine: where it is, the operation it is in, whether this Open
\* took a notification, called AssignShardSet and had the wrapped Open succeed,
\* and Open's locals (the map it read and the shard set it computed).
IdleCaller == [pc |-> "idle", op |-> "none", drained |-> FALSE, assigned |-> FALSE,
               opened |-> FALSE, shardSet |-> NoShardSet, got |-> NoMap]
NoLoop == [pc |-> "none", shardSet |-> NoShardSet, got |-> NoMap,
           reportClosing |-> FALSE, reportClosed |-> FALSE]
\* One analysis pass: the host entry it read, the number of namespaces it read
\* and the shards every one of them reported bootstrapped, the shards its last
\* loop has still to visit, and the MarkShardAvailable calls it made so far
\* (per shard) with the shards whose call returned an error.
NoPass == [entry |-> NoShardSet, nNamespaces |-> 0, full |-> {}, todo |-> {},
           marks |-> <<>>, failed |-> {}]
NoAnalyzer == [pc |-> "none", ticks |-> 0, pass |-> NoPass]
\* The wrapped engine: whether it was built, the shard set assigned to it and
\* the number of the snapshot that shard set was computed from, whether it is
\* open, the namespaces it was built with, and whether a Close has failed on
\* it, while the watch was on, since it was last opened.
NoDatabase == [built |-> FALSE, shardSet |-> NoShardSet, snapshot |-> 0,
               isOpen |-> FALSE, namespaces |-> {}, closeFailed |-> FALSE]
\* NewDatabase's frame: where it is, what it returned (the error and whether a
\* database object came with it), the map it read and the shard set it passed on.
NewCall == [pc |-> "topoInit", ret |-> "none", obj |-> "nil", got |-> NoMap,
            arg |-> NoShardSet]

\* The state before NewDatabase is called, for a caller-chosen hostID and a
\* topology implementation that is or is not a DynamicTopology.
InitWith(hs, dyns) ==
    /\ hostID \in hs
    /\ dynamic \in dyns
    /\ topoMap = NoMap
    /\ watchC = FALSE
    /\ ctor = NewCall
    /\ db = NoDatabase
    /\ watchMutex = "free"
    /\ watching = FALSE
    /\ doneCh = 0
    /\ closedCh = 0
    /\ doneClosed = {}
    /\ closedClosed = {}
    /\ callers = [c \in Callers |-> IdleCaller]
    /\ loops = [g \in Gens |-> NoLoop]
    /\ analyzers = [g \in Gens |-> NoAnalyzer]
    /\ initializing = <<>>
    /\ bootstrapCount = <<>>
    /\ ops = 0
    /\ event = NoEvent

\* ------------------------------------------------------------ environment
\* The topology store delivers a new snapshot: Get() now returns it and a
\* notification is left on C() (a buffer of one, so notifications coalesce).
TopologyUpdate(contents, changes) ==
    /\ ctor.pc \notin {"topoInit", "watch", "failed"}
    /\ topoMap.ver < changes
    /\ \E c \in contents :
         topoMap' = [ver |-> topoMap.ver + 1, hosts |-> c.hosts, hashFn |-> c.hashFn]
    /\ watchC' = TRUE
    /\ event' = NoEvent
    /\ UNCHANGED << hostID, dynamic, ctor, db, watchMutex, watching, doneCh, closedCh,
                    doneClosed, closedClosed, callers, loops, analyzers,
                    initializing, bootstrapCount, ops >>

\* ------------------------------------------------------------ NewDatabase
ctorUnchanged == << hostID, dynamic, watchMutex, watching, doneCh, closedCh,
                    doneClosed, closedClosed, callers, loops, analyzers,
                    initializing, bootstrapCount, ops >>

\* topo, err := topoInit.Init()
NewDatabaseInit ==
    /\ ctor.pc = "topoInit"
    /\ \E ok \in BOOLEAN :
         /\ ctor' = IF ok THEN [ctor EXCEPT !.pc = "watch"]
                          ELSE [ctor EXCEPT !.pc = "failed", !.ret = "errTopoInit"]
         /\ event' = Res(Ev("NewDatabase", "Init", "none"), ok)
    /\ UNCHANGED << topoMap, watchC, db >>
    /\ UNCHANGED ctorUnchanged

\* watch, err := topo.Watch()
NewDatabaseWatch ==
    /\ ctor.pc = "watch"
    /\ \E ok \in BOOLEAN :
         /\ ctor' = IF ok THEN [ctor EXCEPT !.pc = "wait"]
                          ELSE [ctor EXCEPT !.pc = "failed", !.ret = "errWatch"]
         /\ event' = Res(Ev("NewDatabase", "Watch", "none"), ok)
    /\ UNCHANGED << topoMap, watchC, db >>
    /\ UNCHANGED ctorUnchanged

\* Variant: NewDatabase does not wait for the first notification.
FirstMapNotAwaited == TRUE

\* line 88: <-watch.C() is ready once a notification is pending
FirstMapDelivered == watchC

\* <-watch.C()
NewDatabaseWait ==
    /\ ctor.pc = "wait"
    /\ FirstMapDelivered
    /\ watchC' = FALSE
    /\ ctor' = [ctor EXCEPT !.pc = "build"]
    /\ event' = NoEvent
    /\ UNCHANGED << topoMap, db >>
    /\ UNCHANGED ctorUnchanged

\* shardSet := d.hostOrEmptyShardSet(watch.Get());
\* db, err := newStorageDatabase(namespaces, shardSet, opts)
NewDatabaseBuild(namespaceSets) ==
    /\ ctor.pc = "build"
    /\ \E ok \in BOOLEAN, names \in namespaceSets :
         LET shardSet == hostOrEmptyShardSet(topoMap, hostID) IN
         /\ IF ok
            THEN /\ db' = [NoDatabase EXCEPT !.built = TRUE, !.shardSet = shardSet,
                                             !.snapshot = topoMap.ver,
                                             !.namespaces = names]
                 /\ ctor' = [ctor EXCEPT !.pc = "built", !.got = topoMap, !.arg = shardSet]
            ELSE /\ db' = db
                 /\ ctor' = [pc |-> "failed", ret |-> "errNewStorageDatabase",
                             obj |-> "nil", got |-> topoMap, arg |-> shardSet]
         /\ event' = Res(Ev("NewDatabase", "newStorageDatabase",
                            hostOrEmptyShardSetLog(topoMap, hostID)), ok)
    /\ UNCHANGED << topoMap, watchC >>
    /\ UNCHANGED ctorUnchanged

\* line 105-106: d.Database = db; return d, nil
NewDatabaseReturn ==
    /\ ctor.pc = "built"
    /\ ctor' = [NewCall EXCEPT !.pc = "done", !.ret = "nil", !.obj = "d"]
    /\ event' = Ret(Ev("NewDatabase", "none", "none"), "NewDatabase", "nil")
    /\ UNCHANGED << topoMap, watchC, db >>
    /\ UNCHANGED ctorUnchanged

\* ------------------------------------------------------------------ callers
\* A goroutine calls Open, Close, startActiveTopologyWatch or
\* stopActiveTopologyWatch on the database NewDatabase returned.
FirstPc(op) ==
    CASE op = "Open"  -> "open_select"
      [] op = "Close" -> "close_db"

Call(c, op, limit) ==
    /\ ctor.obj = "d"
    /\ callers[c].pc = "idle"
    /\ ops < limit
    /\ ops' = ops + 1
    /\ callers' = [callers EXCEPT ![c] = [IdleCaller EXCEPT !.pc = FirstPc(op), !.op = op]]
    /\ event' = NoEvent
    /\ UNCHANGED << hostID, dynamic, topoMap, watchC, ctor, db, watchMutex, watching,
                    doneCh, closedCh, doneClosed, closedClosed, loops, analyzers,
                    initializing, bootstrapCount >>

\* A call returns: the goroutine is free for its next call.
Return(c) == [callers EXCEPT ![c] = IdleCaller]

\* Variant: Open receives from watch.C() without a default case.
OpenSelectBlocking(c) ==
    /\ callers[c].pc = "open_select"
    /\ watchC
    /\ watchC' = FALSE
    /\ callers' = [callers EXCEPT ![c] = [@ EXCEPT !.pc = "open_get", !.drained = TRUE]]
    /\ event' = NoEvent
    /\ UNCHANGED << hostID, dynamic, topoMap, ctor, db, watchMutex, watching, doneCh,
                    closedCh, doneClosed, closedClosed, loops, analyzers,
                    initializing, bootstrapCount, ops >>

\* Open, line 110-116: select { case <-d.watch.C(): ... default: }
OpenSelect(c) ==
    /\ callers[c].pc = "open_select"
    /\ IF watchC
       THEN /\ watchC' = FALSE
            /\ callers' = [callers EXCEPT ![c] = [@ EXCEPT !.pc = "open_get", !.drained = TRUE]]
       ELSE /\ watchC' = watchC
            /\ callers' = [callers EXCEPT ![c] = [@ EXCEPT !.pc = "open_db"]]
    /\ event' = NoEvent
    /\ UNCHANGED << hostID, dynamic, topoMap, ctor, db, watchMutex, watching, doneCh,
                    closedCh, doneClosed, closedClosed, loops, analyzers,
                    initializing, bootstrapCount, ops >>

\* Open, line 112: shardSet := d.hostOrEmptyShardSet(d.watch.Get())
OpenGet(c) ==
    /\ callers[c].pc = "open_get"
    /\ callers' = [callers EXCEPT ![c] =
                     [@ EXCEPT !.pc = "open_assign", !.got = topoMap,
                               !.shardSet = hostOrEmptyShardSet(topoMap, hostID)]]
    /\ event' = Ev(c, "Get", hostOrEmptyShardSetLog(topoMap, hostID))
    /\ UNCHANGED << hostID, dynamic, topoMap, watchC, ctor, db, watchMutex, watching,
                    doneCh, closedCh, doneClosed, closedClosed, loops, analyzers,
                    initializing, bootstrapCount, ops >>

\* Open, line 113: d.Database.AssignShardSet(shardSet)
OpenAssign(c) ==
    /\ callers[c].pc = "open_assign"
    /\ db' = [db EXCEPT !.shardSet = callers[c].shardSet,
                         !.snapshot = callers[c].got.ver]
    /\ callers' = [callers EXCEPT ![c] = [@ EXCEPT !.pc = "open_db", !.assigned = TRUE]]
    /\ event' = Ev(c, "AssignShardSet", "none")
    /\ UNCHANGED << hostID, dynamic, topoMap, watchC, ctor, watchMutex, watching,
                    doneCh, closedCh, doneClosed, closedClosed, loops, analyzers,
                    initializing, bootstrapCount, ops >>

\* Open, line 117-120: if err := d.Database.Open(); err != nil { return err };
\* otherwise on to startActiveTopologyWatch
\* Variant: Open drops the wrapped engine's error.
OpenErrorIgnored(ok) == FALSE

\* Open, line 117: err != nil
OpenFailed(ok) == ~ok

OpenDatabase(c) ==
    /\ callers[c].pc = "open_db"
    /\ \E ok \in BOOLEAN :
         /\ db' = IF ok THEN [db EXCEPT !.isOpen = TRUE, !.closeFailed = FALSE] ELSE db
         /\ IF OpenFailed(ok)
            THEN /\ callers' = Return(c)
                 /\ event' = Ret(Res(Ev(c, "Open", "none"), ok), "Open", "errOpen")
            ELSE /\ callers' = [callers EXCEPT ![c] =
                                  [IdleCaller EXCEPT !.pc = "start_lock", !.op = "Open",
                                                     !.opened = ok]]
                 /\ event' = Res(Ev(c, "Open", "none"), ok)
    /\ UNCHANGED << hostID, dynamic, topoMap, watchC, ctor, watchMutex, watching,
                    doneCh, closedCh, doneClosed, closedClosed, loops, analyzers,
                    initializing, bootstrapCount, ops >>

\* Close, line 124-127: if err := d.Database.Close(); err != nil { return err };
\* otherwise on to stopActiveTopologyWatch
\* Variant: Close drops the wrapped engine's error.
CloseErrorIgnored(ok) == FALSE

\* Close, line 124: err != nil
CloseFailed(ok) == ~ok

CloseDatabase(c) ==
    /\ callers[c].pc = "close_db"
    /\ \E ok \in BOOLEAN :
         /\ db' = IF ok THEN [db EXCEPT !.isOpen = FALSE]
                        ELSE [db EXCEPT !.closeFailed = @ \/ watching]
         /\ IF CloseFailed(ok)
            THEN /\ callers' = Return(c)
                 /\ event' = Ret(Res(Ev(c, "Close", "none"), ok), "Close", "errClose")
            ELSE /\ callers' = [callers EXCEPT ![c] = [@ EXCEPT !.pc = "stop_lock"]]
                 /\ event' = Res(Ev(c, "Close", "none"), ok)
    /\ UNCHANGED << hostID, dynamic, topoMap, watchC, ctor, watchMutex, watching,
                    doneCh, closedCh, doneClosed, closedClosed, loops, analyzers,
                    initializing, bootstrapCount, ops >>

\* d.watchMutex.Lock() at the head of start and of stop
Lock(c) ==
    /\ callers[c].pc \in {"start_lock", "stop_lock"}
    /\ watchMutex = "free"
    /\ watchMutex' = c
    /\ callers' = [callers EXCEPT ![c] =
                     [@ EXCEPT !.pc = IF @ = "start_lock" THEN "start_check" ELSE "stop_check"]]
    /\ event' = NoEvent
    /\ UNCHANGED << hostID, dynamic, topoMap, watchC, ctor, db, watching, doneCh,
                    closedCh, doneClosed, closedClosed, loops, analyzers,
                    initializing, bootstrapCount, ops >>

\* start, line 134-138: if d.watching { return errAlreadyWatchingTopology };
\* d.watching = true.  The deferred Unlock runs with the return.
\* Variant: start does not look at d.watching.
AlreadyWatchingIgnored == FALSE

\* start, line 134: if d.watching
AlreadyWatching == watching

StartCheck(c) ==
    /\ callers[c].pc = "start_check"
    /\ IF AlreadyWatching
       THEN /\ callers' = Return(c)
            /\ watchMutex' = "free"
            /\ watching' = watching
            /\ event' = Ret(Ev(c, "none", "none"), callers[c].op, "errAlreadyWatchingTopology")
       ELSE /\ callers' = [callers EXCEPT ![c] = [@ EXCEPT !.pc = "start_spawn"]]
            /\ watchMutex' = watchMutex
            /\ watching' = TRUE
            /\ event' = NoEvent
    /\ UNCHANGED << hostID, dynamic, topoMap, watchC, ctor, db, doneCh, closedCh,
                    doneClosed, closedClosed, loops, analyzers, initializing,
                    bootstrapCount, ops >>

\* The next unused channel pair / goroutine number.
NextGen == 1 + Cardinality({ g \in Gens : loops[g].pc # "none" })

\* start, line 140-145: fresh doneCh and closedCh, go d.activeTopologyWatch(),
\* return nil (and the deferred Unlock)
StartSpawn(c) ==
    /\ callers[c].pc = "start_spawn"
    /\ NextGen \in Gens
    /\ doneCh' = NextGen
    /\ closedCh' = NextGen
    /\ loops' = [loops EXCEPT ![NextGen] = [@ EXCEPT !.pc = "spawn"]]
    /\ callers' = Return(c)
    /\ watchMutex' = "free"
    /\ event' = Ret(Ev(c, "none", "none"), callers[c].op, "nil")
    /\ UNCHANGED << hostID, dynamic, topoMap, watchC, ctor, db, watching, doneClosed,
                    closedClosed, analyzers, initializing, bootstrapCount, ops >>

\* stop, line 152-158: if !d.watching { return errNotWatchingTopology };
\* d.watching = false; close(d.doneCh)
\* Variant: stop does not look at d.watching.
NotWatchingIgnored == FALSE

\* stop, line 152: if !d.watching
NotWatching == ~watching

StopCheck(c) ==
    /\ callers[c].pc = "stop_check"
    /\ IF NotWatching
       THEN /\ callers' = Return(c)
            /\ watchMutex' = "free"
            /\ watching' = watching
            /\ doneClosed' = doneClosed
            /\ event' = Ret(Ev(c, "none", "none"), callers[c].op, "errNotWatchingTopology")
       ELSE /\ callers' = [callers EXCEPT ![c] = [@ EXCEPT !.pc = "stop_wait"]]
            /\ watchMutex' = watchMutex
            /\ watching' = FALSE
            /\ doneClosed' = doneClosed \cup {doneCh}
            /\ event' = NoEvent
    /\ UNCHANGED << hostID, dynamic, topoMap, watchC, ctor, db, doneCh, closedCh,
                    closedClosed, loops, analyzers, initializing, bootstrapCount, ops >>

\* Variant: stop returns without waiting for closedCh.
ClosedNotAwaited == TRUE

\* <-d.closedCh is ready once that channel has been closed
ClosedSignalled == closedCh \in closedClosed

\* stop, line 159-161: <-d.closedCh; return nil (and the deferred Unlock)
StopWait(c) ==
    /\ callers[c].pc = "stop_wait"
    /\ ClosedSignalled
    /\ callers' = Return(c)
    /\ watchMutex' = "free"
    /\ event' = Ret(Ev(c, "none", "none"), callers[c].op, "nil")
    /\ UNCHANGED << hostID, dynamic, topoMap, watchC, ctor, db, watching, doneCh,
                    closedCh, doneClosed, closedClosed, loops, analyzers,
                    initializing, bootstrapCount, ops >>

\* --------------------------------------------------------------- watch loop
\* activeTopologyWatch, line 165-179: make the report channels and start the
\* reporting goroutine with its ticker
LoopSpawn(g) ==
    /\ loops[g].pc = "spawn"
    /\ loops' = [loops EXCEPT ![g] = [@ EXCEPT !.pc = "select"]]
    /\ analyzers' = [analyzers EXCEPT ![g] = [@ EXCEPT !.pc = "select"]]
    /\ event' = NoEvent
    /\ UNCHANGED << hostID, dynamic, topoMap, watchC, ctor, db, watchMutex, watching,
                    doneCh, closedCh, doneClosed, closedClosed, callers,
                    initializing, bootstrapCount, ops >>

\* <-d.doneCh is ready once the channel d.doneCh refers to has been closed
DoneSignalled == doneCh \in doneClosed

\* line 183-185: case <-d.doneCh: close(reportClosingCh)
LoopDone(g) ==
    /\ loops[g].pc = "select"
    /\ DoneSignalled
    /\ loops' = [loops EXCEPT ![g] = [@ EXCEPT !.pc = "wait_report", !.reportClosing = TRUE]]
    /\ event' = NoEvent
    /\ UNCHANGED << hostID, dynamic, topoMap, watchC, ctor, db, watchMutex, watching,
                    doneCh, closedCh, doneClosed, closedClosed, callers, analyzers,
                    initializing, bootstrapCount, ops >>

\* Variant: the loop does not wait for the reporting goroutine.
ReportClosedNotAwaited(g) == TRUE

\* line 187: <-reportClosedCh is ready once the reporting goroutine closed it
ReportClosedSignalled(g) == loops[g].reportClosed

\* line 187-190: <-reportClosedCh; close(d.closedCh); return
LoopClosed(g) ==
    /\ loops[g].pc = "wait_report"
    /\ ReportClosedSignalled(g)
    /\ closedClosed' = closedClosed \cup {closedCh}
    /\ loops' = [loops EXCEPT ![g] = [@ EXCEPT !.pc = "exited"]]
    /\ event' = NoEvent
    /\ UNCHANGED << hostID, dynamic, topoMap, watchC, ctor, db, watchMutex, watching,
                    doneCh, closedCh, doneClosed, callers, analyzers,
                    initializing, bootstrapCount, ops >>

\* line 191: case <-d.watch.C()
LoopWatch(g) ==
    /\ loops[g].pc = "select"
    /\ watchC
    /\ watchC' = FALSE
    /\ loops' = [loops EXCEPT ![g] = [@ EXCEPT !.pc = "get"]]
    /\ event' = NoEvent
    /\ UNCHANGED << hostID, dynamic, topoMap, ctor, db, watchMutex, watching, doneCh,
                    closedCh, doneClosed, closedClosed, callers, analyzers,
                    initializing, bootstrapCount, ops >>

\* line 192: shardSet := d.hostOrEmptyShardSet(d.watch.Get())
LoopGet(g) ==
    /\ loops[g].pc = "get"
    /\ loops' = [loops EXCEPT ![g] =
                   [@ EXCEPT !.pc = "assign", !.got = topoMap,
                             !.shardSet = hostOrEmptyShardSet(topoMap, hostID)]]
    /\ event' = Ev("loop", "Get", hostOrEmptyShardSetLog(topoMap, hostID))
    /\ UNCHANGED << hostID, dynamic, topoMap, watchC, ctor, db, watchMutex, watching,
                    doneCh, closedCh, doneClosed, closedClosed, callers, analyzers,
                    initializing, bootstrapCount, ops >>

\* line 193: d.Database.AssignShardSet(shardSet)
LoopAssign(g) ==
    /\ loops[g].pc = "assign"
    /\ db' = [db EXCEPT !.shardSet = loops[g].shardSet, !.snapshot = loops[g].got.ver]
    /\ loops' = [loops EXCEPT ![g] =
                   [@ EXCEPT !.pc = "select", !.got = NoMap, !.shardSet = NoShardSet]]
    /\ event' = Ev("loop", "AssignShardSet", "none")
    /\ UNCHANGED << hostID, dynamic, topoMap, watchC, ctor, watchMutex, watching,
                    doneCh, closedCh, doneClosed, closedClosed, callers, analyzers,
                    initializing, bootstrapCount, ops >>

\* ----------------------------------------------------------------- analyzer
\* line 171: case <-ticker.C: the ticker fires while the goroutine selects
AnalyzerTick(g) ==
    /\ analyzers[g].pc = "select"
    /\ analyzers[g].ticks < MaxPasses
    /\ analyzers' = [analyzers EXCEPT ![g] = [@ EXCEPT !.pc = "lookup", !.ticks = @ + 1]]
    /\ event' = NoEvent
    /\ UNCHANGED << hostID, dynamic, topoMap, watchC, ctor, db, watchMutex, watching,
                    doneCh, closedCh, doneClosed, closedClosed, callers, loops,
                    initializing, bootstrapCount, ops >>

\* Variant: the reporting goroutine returns without closing reportClosedCh.
AnalyzerClosingSilently(g) ==
    /\ analyzers[g].pc = "select"
    /\ loops[g].reportClosing
    /\ analyzers' = [analyzers EXCEPT ![g] = [@ EXCEPT !.pc = "exited"]]
    /\ event' = NoEvent
    /\ UNCHANGED << hostID, dynamic, topoMap, watchC, ctor, db, watchMutex, watching,
                    doneCh, closedCh, doneClosed, closedClosed, callers, loops,
                    initializing, bootstrapCount, ops >>

\* line 173-176: case <-reportClosingCh: ticker.Stop(); close(reportClosedCh); return
AnalyzerClosing(g) ==
    /\ analyzers[g].pc = "select"
    /\ loops[g].reportClosing
    /\ analyzers' = [analyzers EXCEPT ![g] = [@ EXCEPT !.pc = "exited"]]
    /\ loops' = [loops EXCEPT ![g] = [@ EXCEPT !.reportClosed = TRUE]]
    /\ event' = NoEvent
    /\ UNCHANGED << hostID, dynamic, topoMap, watchC, ctor, db, watchMutex, watching,
                    doneCh, closedCh, doneClosed, closedClosed, callers,
                    initializing, bootstrapCount, ops >>

\* line 208-212: the shards of the host's entry that are shard.Initializing
InitializingOf(entry) ==
    [id \in { i \in DOMAIN entry.shards : entry.shards[i] = Initializing } |-> entry.shards[id]]

\* Variant: the topology is taken to be dynamic without the type assertion.
DynamicTopologyAssumed == TRUE

\* line 223: topo, ok := d.topo.(topology.DynamicTopology)
IsDynamicTopology == dynamic

\* Variant: the reusable maps are left as they are.
resetSkipped(m) == m

\* resetReuseable, line 260-275, for one of the two maps: every key deleted
resetReuseable(m) == << >>

\* analyzeAndReportShardStates, line 199-228: look the host up; reset the
\* reusable maps (now, and deferred to the return); collect the initializing
\* shards; return when there are none or the topology is not dynamic.
AnalyzerLookup(g) ==
    /\ analyzers[g].pc = "lookup"
    /\ IF ~LookupHostShardSet(topoMap, hostID)
       THEN /\ analyzers' = [analyzers EXCEPT ![g] = [@ EXCEPT !.pc = "select"]]
            /\ UNCHANGED << initializing, bootstrapCount >>
            /\ event' = NoEvent
       ELSE LET entry == topoMap.hosts[hostID]
                cleared == resetReuseable(initializing)
                counts == resetReuseable(bootstrapCount)
                found == InitializingOf(entry) @@ cleared
            IN  IF DOMAIN found = {}
                THEN /\ analyzers' = [analyzers EXCEPT ![g] = [@ EXCEPT !.pc = "select"]]
                     /\ initializing' = resetReuseable(found)
                     /\ bootstrapCount' = resetReuseable(counts)
                     /\ event' = NoEvent
                ELSE IF ~IsDynamicTopology
                THEN /\ analyzers' = [analyzers EXCEPT ![g] = [@ EXCEPT !.pc = "select"]]
                     /\ initializing' = resetReuseable(found)
                     /\ bootstrapCount' = resetReuseable(counts)
                     /\ event' = Ev("analyzer", "none", "Errorf")
                ELSE /\ analyzers' = [analyzers EXCEPT ![g] =
                                        [@ EXCEPT !.pc = "count", !.pass.entry = entry]]
                     /\ initializing' = found
                     /\ bootstrapCount' = counts
                     /\ event' = NoEvent
    /\ UNCHANGED << hostID, dynamic, topoMap, watchC, ctor, db, watchMutex, watching,
                    doneCh, closedCh, doneClosed, closedClosed, callers, loops, ops >>

\* d.bootstrapCount[id], a Go map read: 0 for a missing key
CountOf(bc, id) == IF id \in DOMAIN bc THEN bc[id] ELSE 0

\* line 240: d.bootstrapCount[s.ID()]++
Bump(bc, id) == [i \in DOMAIN bc \cup {id} |-> CountOf(bc, i) + (IF i = id THEN 1 ELSE 0)]

\* line 233-241: the shards of one namespace, one after the other
RECURSIVE CountShards(_, _, _, _)
CountShards(ids, view, init, bc) ==
    IF ids = {} THEN bc
    ELSE LET id == CHOOSE i \in ids : TRUE
             next == IF id \notin DOMAIN init THEN bc
                     ELSE IF ~view[id] THEN bc
                     ELSE Bump(bc, id)
         IN  CountShards(ids \ {id}, view, init, next)

\* line 232-242: the namespaces, one after the other
RECURSIVE CountNamespaces(_, _, _, _)
CountNamespaces(names, ns, init, bc) ==
    IF names = {} THEN bc
    ELSE LET n == CHOOSE x \in names : TRUE
         IN  CountNamespaces(names \ {n}, ns, init,
                             CountShards(DOMAIN ns[n], ns[n], init, bc))

\* The shards that every namespace of a view lists and reports bootstrapped.
ReportedByAll(ns) ==
    { id \in ShardIDs : \A n \in DOMAIN ns : id \in DOMAIN ns[n] /\ ns[n][id] }

\* line 231-242: namespaces := d.Database.Namespaces() and the counting loops
AnalyzerCount(g, ids) ==
    /\ analyzers[g].pc = "count"
    /\ \E ns \in NamespaceViews(db.namespaces, ids) :
         /\ bootstrapCount' = CountNamespaces(DOMAIN ns, ns, initializing, bootstrapCount)
         /\ analyzers' = [analyzers EXCEPT ![g] =
                            [@ EXCEPT !.pc = "mark",
                                      !.pass.nNamespaces = Cardinality(DOMAIN ns),
                                      !.pass.full = ReportedByAll(ns),
                                      !.pass.todo = DOMAIN initializing]]
    /\ event' = Ev("analyzer", "Namespaces", "none")
    /\ UNCHANGED << hostID, dynamic, topoMap, watchC, ctor, db, watchMutex, watching,
                    doneCh, closedCh, doneClosed, closedClosed, callers, loops,
                    initializing, ops >>

\* Variant: a shard is eligible as soon as one namespace reports it.
EligibleAny(count, nNamespaces) == count >= 1

\* line 245-246: count := d.bootstrapCount[id]; count != len(namespaces) skips
Eligible(count, nNamespaces) == count = nNamespaces

\* Variant: an error from MarkShardAvailable ends the range loop.
RemainingAfterError(todo, id, ok) == IF ok THEN todo \ {id} ELSE {}

\* line 251-256: the error is logged and the range loop goes on to the next
\* shard: what is left to visit after the call for shard id returned
Remaining(todo, id, ok) == todo \ {id}

\* line 244-257: one iteration of the range over d.initializing (in any order):
\* skip the shard, or call topo.MarkShardAvailable(d.hostID, id) and log how it went
AnalyzerMark(g) ==
    /\ analyzers[g].pc = "mark"
    /\ \E id \in analyzers[g].pass.todo :
         IF ~Eligible(CountOf(bootstrapCount, id), analyzers[g].pass.nNamespaces)
         THEN /\ analyzers' = [analyzers EXCEPT ![g] = [@ EXCEPT !.pass.todo = @ \ {id}]]
              /\ event' = NoEvent
         ELSE \E ok \in BOOLEAN :
              /\ analyzers' = [analyzers EXCEPT ![g] =
                   [@ EXCEPT !.pass.todo = Remaining(@, id, ok),
                             !.pass.marks = Bump(@, id),
                             !.pass.failed = IF ok THEN @ ELSE @ \cup {id}]]
              /\ event' = Ev("analyzer", "MarkShardAvailable", IF ok THEN "Infof" ELSE "Errorf")
    /\ UNCHANGED << hostID, dynamic, topoMap, watchC, ctor, db, watchMutex, watching,
                    doneCh, closedCh, doneClosed, closedClosed, callers, loops,
                    initializing, bootstrapCount, ops >>

\* line 258 with the deferred d.resetReuseable() of line 206
AnalyzerReturn(g) ==
    /\ analyzers[g].pc = "mark"
    /\ analyzers[g].pass.todo = {}
    /\ analyzers' = [analyzers EXCEPT ![g] = [@ EXCEPT !.pc = "select", !.pass = NoPass]]
    /\ initializing' = resetReuseable(initializing)
    /\ bootstrapCount' = resetReuseable(bootstrapCount)
    /\ event' = Ev("analyzer", "none", "none")
    /\ UNCHANGED << hostID, dynamic, topoMap, watchC, ctor, db, watchMutex, watching,
                    doneCh, closedCh, doneClosed, closedClosed, callers, loops, ops >>

\* ------------------------------------------------------------ specification
Operations == {"Open", "Close"}

\* Every step of every goroutine, for the given callers and the given
\* environment: the map contents the topology can deliver and how many times,
\* the namespace sets the engine can be built with and the shards its
\* namespaces can list.
NextWith(cs, limit, contents, changes, namespaceSets, ids) ==
    \/ TopologyUpdate(contents, changes)
    \/ NewDatabaseInit
    \/ NewDatabaseWatch
    \/ NewDatabaseWait
    \/ NewDatabaseBuild(namespaceSets)
    \/ NewDatabaseReturn
    \/ \E c \in cs, op \in Operations : Call(c, op, limit)
    \/ \E c \in cs : OpenSelect(c)
    \/ \E c \in cs : OpenGet(c)
    \/ \E c \in cs : OpenAssign(c)
    \/ \E c \in cs : OpenDatabase(c)
    \/ \E c \in cs : CloseDatabase(c)
    \/ \E c \in cs : Lock(c)
    \/ \E c \in cs : StartCheck(c)
    \/ \E c \in cs : StartSpawn(c)
    \/ \E c \in cs : StopCheck(c)
    \/ \E c \in cs : StopWait(c)
    \/ \E g \in Gens : LoopSpawn(g)
    \/ \E g \in Gens : LoopDone(g)
    \/ \E g \in Gens : LoopClosed(g)
    \/ \E g \in Gens : LoopWatch(g)
    \/ \E g \in Gens : LoopGet(g)
    \/ \E g \in Gens : LoopAssign(g)
    \/ \E g \in Gens : AnalyzerTick(g)
    \/ \E g \in Gens : AnalyzerClosing(g)
    \/ \E g \in Gens : AnalyzerLookup(g)
    \/ \E g \in Gens : AnalyzerCount(g, ids)
    \/ \E g \in Gens : AnalyzerMark(g)
    \/ \E g \in Gens : AnalyzerReturn(g)

\* The lifecycle specification: two callers, every interleaving, a small
\* topology (one host that is absent or owns one initializing shard, one
\* namespace).
LifecycleContents ==
    { [hosts |-> <<>>, hashFn |-> "murmur32"],
      [hosts |-> [h \in {"H1"} |-> [shards |-> [i \in {1} |-> Initializing],
                                     hashFn |-> "murmur32"]],
       hashFn |-> "murmur32"] }

Init == InitWith({"H1"}, {TRUE})
Next == NextWith(Callers, MaxOps, LifecycleContents, MaxTopoChanges, {{"ns1"}}, {1})
Spec == Init /\ [][Next]_vars

\* The analysis specification: one caller, a topology that is or is not
\* dynamic, every state of the host's entry over two shards, and every view of
\* up to two namespaces.
AnalysisContents == MapContents({"H1"}, ShardIDs, {"murmur32"})

InitAnalysis == InitWith({"H1"}, BOOLEAN)
NextAnalysis ==
    NextWith({"c1"}, MaxDataOps, AnalysisContents, MaxTopoChanges, SUBSET NsNames, ShardIDs)
SpecAnalysis == InitAnalysis /\ [][NextAnalysis]_vars

\* The resolver specification: one caller, either host as the local host, and
\* every map over two hosts, one shard and two hash functions.
ResolverContents ==
    { c \in MapContents(HostIDs, {1}, HashFns) :
        /\ "H1" \in DOMAIN c.hosts => c.hosts["H1"].shards = [i \in {1} |-> Initializing]
        /\ "H2" \in DOMAIN c.hosts => c.hosts["H2"].shards = [i \in {1} |-> Available] }

InitResolver == InitWith(HostIDs, {TRUE})
NextResolver ==
    NextWith({"c1"}, MaxDataOps, ResolverContents, MaxTopoChanges, {{"ns1"}}, {1})
SpecResolver == InitResolver /\ [][NextResolver]_vars

\* The reopen specification: one caller that calls Open and Close in any
\* order (Open on a database that is already watching included), three
\* snapshots of the small topology.
InitReopen == InitWith({"H1"}, {TRUE})
NextReopen ==
    NextWith({"c1"}, MaxDataOps, LifecycleContents, MaxReopenTopoChanges, {{"ns1"}}, {1})
SpecReopen == InitReopen /\ [][NextReopen]_vars

\* The scheduling of the goroutines: a goroutine that can take its next step
\* takes it.  Nothing is assumed of the callers' decision to make a call, of
\* the topology store's deliveries, of the ticker, or of which ready case a
\* select takes while notifications or ticks are still arriving.
CallerStep(c) ==
    \/ OpenSelect(c) \/ OpenGet(c) \/ OpenAssign(c) \/ OpenDatabase(c)
    \/ CloseDatabase(c) \/ Lock(c) \/ StartCheck(c) \/ StartSpawn(c)
    \/ StopCheck(c) \/ StopWait(c)
LoopStep(g) ==
    LoopSpawn(g) \/ LoopDone(g) \/ LoopClosed(g) \/ LoopGet(g) \/ LoopAssign(g)
AnalyzerStep(g, ids) ==
    \/ AnalyzerClosing(g) \/ AnalyzerLookup(g) \/ AnalyzerCount(g, ids)
    \/ AnalyzerMark(g) \/ AnalyzerReturn(g)
Fairness(cs, ids) ==
    /\ \A c \in cs : WF_vars(CallerStep(c))
    /\ \A g \in Gens : WF_vars(LoopStep(g))
    /\ \A g \in Gens : WF_vars(AnalyzerStep(g, ids))

\* The lifecycle of one caller's calls under that scheduling.
NextLive == NextWith({"c1"}, MaxOps, LifecycleContents, MaxTopoChanges, {{"ns1"}}, {1})
SpecLive == Init /\ [][NextLive]_vars /\ Fairness({"c1"}, {1})

\* --------------------------------------------------------------- properties
RunningLoops == { g \in Gens : loops[g].pc \notin {"none", "exited"} }
RunningAnalyzers == { g \in Gens : analyzers[g].pc \notin {"none", "exited"} }

\* A stopActiveTopologyWatch call that found the watch on has returned, and the
\* watch has not been started again.
StopReturned ==
    /\ doneCh # 0
    /\ ~watching
    /\ \A c \in Callers : callers[c].pc # "stop_wait"

\* r is what the resolver has to return for map m and host h.
Resolved(m, h, r) ==
    /\ h \in DOMAIN m.hosts => r = m.hosts[h]
    /\ h \notin DOMAIN m.hosts => DOMAIN r.shards = {} /\ r.hashFn = m.hashFn

\* Host h has an entry in m with at least one initializing shard.
HasInitializing(m, h) ==
    /\ h \in DOMAIN m.hosts
    /\ \E i \in DOMAIN m.hosts[h].shards : m.hosts[h].shards[i] = Initializing

WatchState == << watching, doneCh, closedCh, doneClosed, closedClosed, loops, analyzers >>

\* C1: once stopActiveTopologyWatch has returned (and so a Close whose wrapped
\* Close succeeded), neither the watch loop nor the analyzer makes another
\* AssignShardSet or MarkShardAvailable call, whatever is pending or arrives.
C1_NoCallAfterStop ==
    [][StopReturned =>
         ~(/\ event'.by \in {"loop", "analyzer"}
           /\ event'.call \in {"AssignShardSet", "MarkShardAvailable"})]_vars

\* C1 witness: Close has just returned nil with a notification pending on the
\* subscription and a tick of the stopped analyzer's ticker still to come.
C1_Witness ==
    /\ event.op = "Close" /\ event.ret = "nil"
    /\ StopReturned
    /\ watchC
    /\ \E g \in Gens : analyzers[g].pc = "exited" /\ analyzers[g].ticks < MaxPasses

\* C2: in a pass with a dynamic topology, MarkShardAvailable is called for shard
\* s exactly once if s is initializing in the host entry the pass read and every
\* namespace the pass read reports s bootstrapped, and not at all otherwise.
C2_MarkedIffAllNamespaces ==
    \A g \in Gens :
      analyzers[g].pc = "mark" =>
        LET p == analyzers[g].pass
            due(s) == /\ s \in DOMAIN p.entry.shards
                      /\ p.entry.shards[s] = Initializing
                      /\ s \in p.full
        IN  /\ dynamic
            /\ \A s \in ShardIDs :
                 CountOf(p.marks, s) = IF s \notin p.todo /\ due(s) THEN 1 ELSE 0

\* C2 witness: a finished pass over two namespaces that marked shard 1 and left
\* the initializing shard 2 alone.
C2_Witness ==
    \E g \in Gens :
      /\ analyzers[g].pc = "mark"
      /\ analyzers[g].pass.todo = {}
      /\ analyzers[g].pass.nNamespaces = 2
      /\ DOMAIN initializing = {1, 2}
      /\ CountOf(analyzers[g].pass.marks, 1) = 1
      /\ CountOf(analyzers[g].pass.marks, 2) = 0

\* C3: startActiveTopologyWatch on a database that is watching returns
\* errAlreadyWatchingTopology, starts nothing, keeps doneCh and closedCh, and
\* leaves exactly one watch loop running.
C3_SecondStartRefused ==
    [][\A c \in Callers :
         (callers[c].pc = "start_check" /\ watching /\ callers'[c].pc # "start_check") =>
           /\ event'.by = c
           /\ event'.ret = "errAlreadyWatchingTopology"
           /\ UNCHANGED WatchState
           /\ Cardinality(RunningLoops) = 1
           /\ Cardinality(RunningAnalyzers) <= 1]_vars

\* C3 witness: a second start has just been refused.
C3_Witness ==
    /\ event.ret = "errAlreadyWatchingTopology"
    /\ watching
    /\ Cardinality(RunningLoops) = 1

\* C4: stopActiveTopologyWatch on a database that is not watching returns
\* errNotWatchingTopology in the step that reads the flag (it never waits for
\* closedCh) and leaves the flag, the channels and the goroutines as they were.
C4_StopWhenIdleRefused ==
    [][\A c \in Callers :
         (callers[c].pc = "stop_check" /\ ~watching /\ callers'[c].pc # "stop_check") =>
           /\ event'.by = c
           /\ event'.ret = "errNotWatchingTopology"
           /\ callers'[c].pc = "idle"
           /\ watchMutex' = "free"
           /\ UNCHANGED WatchState]_vars

\* C4 witness: a stop has just been refused on a database that was watching
\* before and has been stopped.
C4_Witness ==
    /\ event.ret = "errNotWatchingTopology"
    /\ doneCh # 0
    /\ RunningLoops = {}

\* C5: when the wrapped Open fails, Open returns that error with the watch
\* state untouched; a caller is inside startActiveTopologyWatch only after the
\* wrapped Open of its call succeeded.
C5_OpenErrorStartsNothing ==
    /\ [](\A c \in Callers :
            callers[c].pc \in {"start_lock", "start_check", "start_spawn"} =>
              callers[c].op = "Open" /\ callers[c].opened)
    /\ [][(event'.call = "Open" /\ event'.res = "err") =>
            /\ event'.op = "Open"
            /\ event'.ret = "errOpen"
            /\ callers'[event'.by].pc = "idle"
            /\ UNCHANGED WatchState]_vars

\* C5 witness: the wrapped Open has just failed on a database that is not
\* watching.
C5_Witness ==
    /\ event.call = "Open" /\ event.res = "err" /\ event.ret = "errOpen"
    /\ ~watching
    /\ RunningLoops = {}

\* C6: when the wrapped Close fails, Close returns that error with the watch
\* state untouched (the loop keeps running); a Close whose wrapped Close
\* succeeds on a watching database signals done, waits, and returns nil only
\* once the loop and the analyzer have exited.
C6_CloseErrorKeepsLoop ==
    /\ [](event.op = "Close" /\ event.ret = "nil" =>
            ~watching /\ RunningLoops = {} /\ RunningAnalyzers = {})
    /\ [][(event'.call = "Close" /\ event'.res = "err") =>
            /\ event'.op = "Close"
            /\ event'.ret = "errClose"
            /\ callers'[event'.by].pc = "idle"
            /\ UNCHANGED WatchState]_vars
    /\ [][\A c \in Callers :
            /\ (callers[c].pc = "stop_check" /\ watching /\ callers'[c].pc # "stop_check") =>
                 callers'[c].pc = "stop_wait" /\ ~watching' /\ doneCh \in doneClosed'
            /\ (callers[c].pc = "stop_wait" /\ callers'[c].pc # "stop_wait") =>
                 event'.op = "Close" /\ event'.ret = "nil"]_vars

\* C6 witness: Close has just returned nil after an earlier Close failed while
\* the database was watching.
C6_Witness ==
    /\ event.op = "Close" /\ event.ret = "nil"
    /\ db.closeFailed

\* C7: wherever hostOrEmptyShardSet was applied (NewDatabase, Open, the watch
\* loop), its result is the host's shard set when the map has an entry for the
\* host and otherwise an empty shard set with the map's hash function; the
\* step that applies it leaves the database and the topology as they were.
C7_ResolverResult ==
    /\ [](/\ \A g \in Gens :
               loops[g].pc = "assign" => Resolved(loops[g].got, hostID, loops[g].shardSet)
          /\ \A c \in Callers :
               callers[c].pc = "open_assign" =>
                 Resolved(callers[c].got, hostID, callers[c].shardSet)
          /\ ctor.pc = "built" => Resolved(ctor.got, hostID, ctor.arg))
    /\ [][(event'.call = "Get") =>
            UNCHANGED << hostID, dynamic, topoMap, watchC, db, ctor, watchMutex, watching,
                         doneCh, closedCh, doneClosed, closedClosed, analyzers,
                         initializing, bootstrapCount >>]_vars

\* C7 witness: the loop resolved a map without an entry for the host to an
\* empty shard set carrying the map's (non-default) hash function.
C7_Witness ==
    \E g \in Gens :
      /\ loops[g].pc = "assign"
      /\ hostID \notin DOMAIN loops[g].got.hosts
      /\ DOMAIN loops[g].got.hosts # {}
      /\ loops[g].got.hashFn = "fnv"
      /\ loops[g].shardSet = [shards |-> <<>>, hashFn |-> "fnv"]

\* C8: with a topology that is not dynamic no MarkShardAvailable call is ever
\* made, and a pass that finds an initializing shard logs an error and returns
\* to the ticker select.
C8_NotDynamicNoMark ==
    /\ [](~dynamic =>
            /\ event.call # "MarkShardAvailable"
            /\ \A g \in Gens : analyzers[g].pc \notin {"count", "mark"})
    /\ [][\A g \in Gens :
            (/\ analyzers[g].pc = "lookup"
             /\ analyzers'[g].pc # "lookup"
             /\ ~dynamic
             /\ HasInitializing(topoMap, hostID)) =>
              /\ event'.by = "analyzer"
              /\ event'.call = "none"
              /\ event'.log = "Errorf"
              /\ analyzers'[g].pc = "select"]_vars

\* C8 witness: a pass has just logged the error and is back at the select.
C8_Witness ==
    /\ ~dynamic
    /\ event.by = "analyzer" /\ event.log = "Errorf"
    /\ HasInitializing(topoMap, hostID)
    /\ \E g \in Gens : analyzers[g].pc = "select" /\ analyzers[g].ticks = 1

\* C9: the wrapped engine is constructed only after the first notification
\* was delivered, with the resolver's result for the map current at that
\* moment; a failing Init, Watch or constructor makes NewDatabase return that
\* error and no database.
C9_ConstructAfterFirstMap ==
    /\ (db.built \/ ctor.pc \in {"build", "built", "done"}) => topoMap.ver >= 1
    /\ event.call = "newStorageDatabase" =>
         /\ topoMap.ver >= 1
         /\ ctor.got = topoMap
         /\ Resolved(topoMap, hostID, ctor.arg)
         /\ event.res = "ok" => db.built /\ db.shardSet = ctor.arg /\ ctor.pc = "built"
         /\ event.res = "err" => ctor.pc = "failed" /\ ctor.ret = "errNewStorageDatabase"
    /\ (event.call = "Init" /\ event.res = "err") =>
         ctor.pc = "failed" /\ ctor.ret = "errTopoInit"
    /\ (event.call = "Watch" /\ event.res = "err") =>
         ctor.pc = "failed" /\ ctor.ret = "errWatch"
    /\ ctor.pc = "failed" => ctor.obj = "nil" /\ ~db.built
    /\ ctor.obj = "d" => ctor.ret = "nil" /\ db.built

\* C9 witness: the engine has just been built from the second snapshot, which
\* arrived while NewDatabase was between the wait and the Get, and which has an
\* entry for the host.
C9_Witness ==
    /\ event.call = "newStorageDatabase" /\ event.res = "ok"
    /\ topoMap.ver = 2
    /\ hostID \in DOMAIN topoMap.hosts
    /\ db.shardSet = topoMap.hosts[hostID]

\* C10: Open's select never waits; an Open that took a pending notification
\* has called AssignShardSet once, with the resolver's result for the map it
\* then read, by the time it calls the wrapped Open, and an Open that found
\* none pending calls the wrapped Open without AssignShardSet; Open takes at
\* most one notification.
C10_OpenDrainsWithoutWaiting ==
    /\ [](\A c \in Callers :
            /\ callers[c].pc = "open_select" => ENABLED OpenSelect(c)
            /\ callers[c].pc = "open_db" => (callers[c].drained <=> callers[c].assigned)
            /\ callers[c].pc = "open_assign" =>
                 /\ callers[c].drained /\ ~callers[c].assigned
                 /\ Resolved(callers[c].got, hostID, callers[c].shardSet)
            /\ (callers[c].pc = "open_assign" /\ event.by = c /\ event.call = "Get") =>
                 callers[c].got = topoMap)
    /\ [][\A c \in Callers :
            (callers'[c] # callers[c] /\ callers[c].op = "Open") =>
              /\ watchC' # watchC => callers[c].pc = "open_select" /\ callers'[c].drained
              /\ (callers[c].pc = "open_select" /\ watchC) =>
                   callers'[c].pc = "open_get" /\ ~watchC'
              /\ (callers[c].pc = "open_select" /\ ~watchC) =>
                   callers'[c].pc = "open_db" /\ ~callers'[c].drained
              /\ callers[c].pc = "open_assign" =>
                   /\ event'.call = "AssignShardSet"
                   /\ db'.shardSet = callers[c].shardSet
                   /\ callers'[c].pc = "open_db"
              /\ event'.call = "AssignShardSet" => callers[c].pc = "open_assign"
              /\ event'.call = "Open" => callers[c].pc = "open_db"]_vars

\* C10 witness: an Open that took a notification is about to call the wrapped
\* Open, the engine holding the shard set of the second snapshot.
C10_Witness ==
    \E c \in Callers :
      /\ callers[c].pc = "open_db"
      /\ callers[c].drained /\ callers[c].assigned
      /\ topoMap.ver = 2
      /\ hostID \in DOMAIN topoMap.hosts
      /\ db.shardSet = topoMap.hosts[hostID]

\* A reassignment (hostOrEmptyShardSet followed by AssignShardSet) is in
\* progress in the watch loop, or in an Open call.
LoopReassigning == { g \in Gens : loops[g].pc \in {"get", "assign"} }
OpenReassigning == { c \in Callers : callers[c].pc \in {"open_get", "open_assign"} }

\* A stopActiveTopologyWatch call is under way.
Stopping == \E c \in Callers : callers[c].pc \in {"stop_lock", "stop_check", "stop_wait"}

\* C11: while the database is watching and is not being stopped, once every
\* delivered notification has been followed by its AssignShardSet call (none
\* is pending and no reassignment is in progress), the shard set assigned to
\* the wrapped engine is the resolver's result for the latest snapshot.
C11_ReassignedToLatest ==
    (/\ watching
     /\ ~Stopping
     /\ ~watchC
     /\ LoopReassigning = {}
     /\ OpenReassigning = {}) =>
       db.shardSet = hostOrEmptyShardSet(topoMap, hostID)

\* An analysis pass (analyzeAndReportShardStates) is in progress.
Analyzing == { g \in Gens : analyzers[g].pc \in {"lookup", "count", "mark"} }

\* C12 as stated: an analysis pass and a reassignment of the watch loop are
\* never in progress at the same time.
C12_AnalysisExcludesReassignment ==
    ~(Analyzing # {} /\ LoopReassigning # {})

\* C12, amended: at most one analysis pass is in progress at any time and at
\* most one reassignment of the watch loop, and they belong to the one running
\* loop; the pass and the reassignment are steps of two goroutines and can be
\* in progress together.
C12_OnePassOneReassignment ==
    /\ Cardinality(Analyzing) <= 1
    /\ Cardinality(LoopReassigning) <= 1
    /\ \A g \in Analyzing \cup LoopReassigning : RunningLoops = {g}

\* C12 witness: the analyzer is inside a pass (it has read the namespaces)
\* while the watch loop of the same start is between Get and AssignShardSet.
C12_Witness ==
    \E g \in Gens :
      /\ analyzers[g].pc = "mark"
      /\ loops[g].pc = "assign"

\* A caller is inside start between d.watching = true and the go statement,
\* or inside stop between d.watching = false and the return of <-d.closedCh.
InStartWindow == \E c \in Callers : callers[c].pc = "start_spawn"
InStopWindow == \E c \in Callers : callers[c].pc = "stop_wait"

\* C13 as stated: in every state, the two windows included, d.watching is true
\* if and only if exactly one watch loop is active.
C13_WatchingIffOneLoop ==
    watching <=> (Cardinality(RunningLoops) = 1)

\* C13, amended: outside the two windows d.watching is true if and only if
\* exactly one watch loop is active; in the window of start the flag is true
\* with no loop yet, in the window of stop it is false with the loop (at most
\* one) still on its way out.
C13_WatchingIffOneLoopOutsideWindows ==
    /\ Cardinality(RunningLoops) <= 1
    /\ (~InStartWindow /\ ~InStopWindow) => (watching <=> (Cardinality(RunningLoops) = 1))
    /\ InStartWindow => (watching /\ RunningLoops = {})
    /\ InStopWindow => ~watching

\* C13 witness: stop has cleared the flag and closed doneCh, and waits for the
\* loop, which is still selecting.
C13_Witness ==
    /\ InStopWindow
    /\ ~watching
    /\ \E g \in Gens : loops[g].pc = "select"

\* C14: whatever Open and Close calls are made and however they interleave,
\* at most one watch loop and at most one analyzer exist at any time, and a
\* loop is spawned only once every earlier loop and analyzer has exited.
C14_OneLoopOneAnalyzer ==
    /\ [](/\ Cardinality(RunningLoops) <= 1
          /\ Cardinality(RunningAnalyzers) <= 1
          /\ RunningAnalyzers \subseteq RunningLoops)
    /\ [][\A g \in Gens :
            (loops[g].pc = "none" /\ loops'[g].pc # "none") =>
              /\ RunningLoops = {}
              /\ RunningAnalyzers = {}
              /\ \A h \in Gens : h < g => loops[h].pc = "exited" /\ analyzers[h].pc = "exited"]_vars

\* C14 witness: a second loop has just been spawned, by an Open made after a
\* Close stopped the first loop and its analyzer.
C14_Witness ==
    /\ loops[1].pc = "exited"
    /\ analyzers[1].pc = "exited"
    /\ loops[2].pc = "spawn"
    /\ event.op = "Open" /\ event.ret = "nil"

C16_AssignedInSnapshotOrder ==
    [][event'.call = "AssignShardSet" => db'.snapshot >= db.snapshot]_vars

\* The number of goroutines whose current statement is the AssignShardSet call
\* on the wrapped engine: the call is theirs to make, or in progress.
AssignInProgress ==
    Cardinality({ g \in Gens : loops[g].pc = "assign" })
      + Cardinality({ c \in Callers : callers[c].pc = "open_assign" })

\* C17: after construction no two AssignShardSet calls on the wrapped engine
\* are in progress at the same time, an Open made while the loop is running
\* included.
C17_AssignNeverConcurrent ==
    AssignInProgress <= 1

\* C18: an error from MarkShardAvailable does not end the pass: the step that
\* gets it only takes that shard off the shards still to visit, a finished
\* pass has called MarkShardAvailable for every initializing shard whose count
\* equals the number of namespaces, whichever calls failed, and the analyzer
\* goes from the pass back to its select.
C18_MarkErrorDoesNotStopPass ==
    /\ [](\A g \in Gens :
            (analyzers[g].pc = "mark" /\ analyzers[g].pass.todo = {}) =>
              \A s \in DOMAIN initializing :
                CountOf(bootstrapCount, s) = analyzers[g].pass.nNamespaces =>
                  CountOf(analyzers[g].pass.marks, s) = 1)
    /\ [][\A g \in Gens :
            (/\ analyzers[g].pc = "mark"
             /\ analyzers'[g] # analyzers[g]
             /\ event'.call = "MarkShardAvailable"
             /\ event'.log = "Errorf") =>
              /\ analyzers'[g].pc = "mark"
              /\ \E s \in analyzers[g].pass.todo :
                   /\ analyzers'[g].pass.todo = analyzers[g].pass.todo \ {s}
                   /\ analyzers'[g].pass.failed = analyzers[g].pass.failed \cup {s}]_vars
    /\ [][\A g \in Gens :
            analyzers[g].pc = "mark" => analyzers'[g].pc \in {"mark", "select"}]_vars

\* C18 witness: the call for shard 2 has just succeeded in a pass whose call
\* for shard 1 had failed.
C18_Witness ==
    \E g \in Gens :
      /\ analyzers[g].pc = "mark"
      /\ analyzers[g].pass.failed = {1}
      /\ CountOf(analyzers[g].pass.marks, 1) = 1
      /\ CountOf(analyzers[g].pass.marks, 2) = 1
      /\ event.call = "MarkShardAvailable" /\ event.log = "Infof"

\* The last step was a call of the watch loop or the analyzer on the wrapped
\* engine or, for the engine's shards, on the topology.
EngineCallByWatch(e) ==
    /\ e.by \in {"loop", "analyzer"}
    /\ e.call \in {"AssignShardSet", "Namespaces", "MarkShardAvailable"}

\* C19 as stated: the watch loop and the analyzer make their AssignShardSet,
\* Namespaces and MarkShardAvailable calls only while the wrapped engine is
\* open, so none once its Close has returned successfully.
C19_NoCallOnClosedEngine ==
    [][EngineCallByWatch(event') => db.isOpen]_vars

\* C19, amended: the watch loop and the analyzer make such a call only while
\* the watch is on, from its start to the return of the stop that ends it: none
\* once the Close call whose wrapped Close succeeded has returned nil (until a
\* later Open starts the watch again), whether the engine is open or not.
C19_NoCallAfterCloseReturned ==
    [][EngineCallByWatch(event') => (watching \/ InStopWindow)]_vars

\* C19 witness: the loop has just called AssignShardSet on the engine that the
\* Close call now waiting in stop has closed.
C19_Witness ==
    /\ event.by = "loop" /\ event.call = "AssignShardSet"
    /\ ~db.isOpen
    /\ \E c \in Callers : callers[c].op = "Close" /\ callers[c].pc = "stop_wait"

\* C20: whenever no analysis pass is in progress, d.initializing and
\* d.bootstrapCount are both empty, whichever way the last pass ended; so a
\* pass starts from empty maps and counts from zero.
C20_ScratchEmptyBetweenPasses ==
    /\ Analyzing = {} => (DOMAIN initializing = {} /\ DOMAIN bootstrapCount = {})
    /\ \A g \in Gens :
         analyzers[g].pc \in {"lookup", "count"} => DOMAIN bootstrapCount = {}
    /\ \A g \in Gens :
         analyzers[g].pc = "lookup" => DOMAIN initializing = {}

\* C20 witness: a pass that went through the counting of two namespaces, for a
\* host entry with an initializing shard, has just returned through the
\* deferred reset, and the analyzer is back at its select.
C20_Witness ==
    /\ event.by = "analyzer" /\ event.call = "none" /\ event.log = "none"
    /\ Analyzing = {}
    /\ HasInitializing(topoMap, hostID)
    /\ Cardinality(db.namespaces) = 2
    /\ \E g \in Gens : analyzers[g].pc = "select" /\ analyzers[g].ticks = 1

====
